---- MODULE Spec2Model ----
(***************************************************************************)
(* Model of practical_work_2_cnn/main.py: the super-resolution training    *)
(* driver.  The script is one sequential process; pc is its position.      *)
(* Floating-point values are modelled exactly on small domains: a training *)
(* loss is an integer number of loss units, an evaluation MSE is 0.0, inf   *)
(* or a power of ten 10^exp.                                               *)
(***************************************************************************)
EXTENDS Integers, Sequences, FiniteSets, TLC

\* Bounds of the explored inputs.
MaxEpochs == 2
MaxBatchSize == 2
MaxTrainSet == 4
MaxTestSet == 2
MaxLoss == 1
MaxExp == 1

VARIABLES
    opt,            \* parsed options (line 35)
    cuda_avail,     \* torch.cuda.is_available()
    mps_avail,      \* torch.backends.mps.is_available()
    pc,             \* position of the script
    error,          \* the uncaught exception that ended the run, or "none"
    device,         \* resolved device (lines 47-52), "unset" before
    train_set,      \* len(train_set), 0 before loading
    test_set,       \* len(test_set), 0 before loading
    model,          \* [built, steps]: steps counts the parameter updates
    epoch_range,    \* the epochs range(1, nb_epochs + 1) has still to yield
    epoch,          \* loop variable of line 113
    batches,        \* batch sizes the running loader iterator has still to yield
    iteration,      \* enumerate index of line 76
    epoch_loss,     \* accumulator of train()
    batch_losses,   \* loss.item() values the running train() call has printed
    avg_loss,       \* [num, den]: the quotient the running train() call printed (line 90)
    avg_psnr,       \* accumulator of test()
    mse,            \* mse.item() of the last evaluation batch of the running test() call
    output,         \* printed lines, numeric payloads left to the variables above
    files,          \* checkpoint paths written
    calls           \* calls made by the top-level loop, in order

vars == <<opt, cuda_avail, mps_avail, pc, error, device, train_set, test_set,
          model, epoch_range, epoch, batches, iteration, epoch_loss,
          batch_losses, avg_loss, avg_psnr, mse, output, files, calls>>

----------------------------------------------------------------------------
\* Pure helpers

\* Python range(lo, hi) as the sequence it yields.
RangeZeroBased(lo, hi) == [i \in 1..(IF hi > lo THEN hi - lo ELSE 0) |-> lo + i - 2]

Range(lo, hi) == [i \in 1..(IF hi > lo THEN hi - lo ELSE 0) |-> lo + i - 1]

\* A printed line; fields a line kind does not have are 0.
Line(kind, e, i, n) == [kind |-> kind, epoch |-> e, iteration |-> i, total |-> n]

\* Lines 39-42: the exception validation raises, or "none".
ValidationNoCudaCheck(cuda, mps, cudaAvail, mpsAvail) ==
    IF ~mps /\ mpsAvail THEN "MpsNotEnabled" ELSE "none"

ValidationNoMpsCheck(cuda, mps, cudaAvail, mpsAvail) ==
    IF cuda /\ ~cudaAvail THEN "NoGPU" ELSE "none"

ValidationError(cuda, mps, cudaAvail, mpsAvail) ==
    IF cuda /\ ~cudaAvail THEN "NoGPU"
    ELSE IF ~mps /\ mpsAvail THEN "MpsNotEnabled"
    ELSE "none"

\* Lines 47-52.
ResolveDeviceMpsFirst(cuda, use_mps) ==
    IF use_mps THEN "mps" ELSE IF cuda THEN "cuda" ELSE "cpu"

ResolveDevice(cuda, use_mps) ==
    IF cuda THEN "cuda" ELSE IF use_mps THEN "mps" ELSE "cpu"

\* DataLoader(dataset, batch_size=b) with the default drop_last=False:
\* the batch sizes one traversal yields, and len(loader).
RECURSIVE BatchesDropLast(_, _)
BatchesDropLast(n, b) ==
    IF n < b THEN <<>> ELSE <<b>> \o BatchesDropLast(n - b, b)

RECURSIVE Batches(_, _)
Batches(n, b) ==
    IF n = 0 THEN <<>>
    ELSE IF n <= b THEN <<n>>
    ELSE <<b>> \o Batches(n - b, b)

LoaderLenDatasetSize(n, b) == n

LoaderLen(n, b) == (n + b - 1) \div b

\* The evaluation MSE values explored: 0.0, inf, and 10^exp for exp in -MaxExp..0.
Zero == [kind |-> "zero", exp |-> 0]
Inf == [kind |-> "inf", exp |-> 0]
Pow10(k) == [kind |-> "pow10", exp |-> k]
MseValues == {Zero, Inf} \cup {Pow10(k) : k \in (0 - MaxExp)..0}
Losses == 0..MaxLoss

\* Line 102, psnr = 10 * log10(1 / mse.item()): Python raises ZeroDivisionError
\* for 1 / 0.0, and math.log10 raises ValueError for log10(1 / inf) = log10(0.0).
PsnrError(m) ==
    IF m.kind = "zero" THEN "ZeroDivisionError"
    ELSE IF m.kind = "inf" THEN "ValueError"
    ELSE "none"

Reciprocal(m) == Pow10(0 - m.exp)
Log10(m) == m.exp
Psnr(m) == 10 * Log10(Reciprocal(m))

\* The values of the locals of train() and test() while neither is running,
\* and of what a train() call printed once it has returned.
NoLoss == [num |-> 0, den |-> 1]
NoMse == Pow10(0)

\* Line 108.
ModelOutPathPrevious(e) == <<"model_epoch_", e - 1, ".pth">>

ModelOutPath(e) == <<"model_epoch_", e, ".pth">>

----------------------------------------------------------------------------
\* State after parse_args() and print(opt) (lines 35-37).

Init ==
    /\ opt \in [cuda : BOOLEAN, mps : BOOLEAN, nb_epochs : 0..MaxEpochs,
                batch_size : 1..MaxBatchSize, test_batch_size : 1..MaxBatchSize]
    /\ cuda_avail \in BOOLEAN
    /\ mps_avail \in BOOLEAN
    /\ pc = "validate"
    /\ error = "none"
    /\ device = "unset"
    /\ train_set = 0
    /\ test_set = 0
    /\ model = [built |-> FALSE, steps |-> 0]
    /\ epoch_range = <<>>
    /\ epoch = 0
    /\ batches = <<>>
    /\ iteration = 0
    /\ epoch_loss = 0
    /\ batch_losses = <<>>
    /\ avg_loss = NoLoss
    /\ avg_psnr = 0
    /\ mse = NoMse
    /\ output = <<Line("opt", 0, 0, 0)>>
    /\ files = {}
    /\ calls = <<>>

\* Lines 39-42.
Validate ==
    /\ pc = "validate"
    /\ LET e == ValidationError(opt.cuda, opt.mps, cuda_avail, mps_avail)
       IN  IF e # "none"
           THEN pc' = "failed" /\ error' = e
           ELSE pc' = "select" /\ error' = error
    /\ UNCHANGED <<opt, cuda_avail, mps_avail, device, train_set, test_set,
                   model, epoch_range, epoch, batches, iteration, epoch_loss,
                   batch_losses, avg_loss, avg_psnr, mse, output, files, calls>>

\* Lines 44-52.
SelectDevice ==
    /\ pc = "select"
    /\ LET use_mps == opt.mps /\ mps_avail
       IN  device' = ResolveDevice(opt.cuda, use_mps)
    /\ pc' = "load"
    /\ UNCHANGED <<opt, cuda_avail, mps_avail, error, train_set, test_set,
                   model, epoch_range, epoch, batches, iteration, epoch_loss,
                   batch_losses, avg_loss, avg_psnr, mse, output, files, calls>>

\* Lines 54-65.  The training loader shuffles, and a RandomSampler needs a
\* non-empty dataset; the evaluation loader may be empty.
LoadDatasets ==
    /\ pc = "load"
    /\ output' = Append(output, Line("loading", 0, 0, 0))
    /\ \E t \in 1..MaxTrainSet : train_set' = t
    /\ \E v \in 0..MaxTestSet : test_set' = v
    /\ pc' = "build"
    /\ UNCHANGED <<opt, cuda_avail, mps_avail, error, device,
                   model, epoch_range, epoch, batches, iteration, epoch_loss,
                   batch_losses, avg_loss, avg_psnr, mse, files, calls>>

\* Lines 67-71, and the start of the for statement of line 113.
BuildModel ==
    /\ pc = "build"
    /\ output' = Append(output, Line("building", 0, 0, 0))
    /\ model' = [built |-> TRUE, steps |-> 0]
    /\ epoch_range' = Range(1, opt.nb_epochs + 1)
    /\ pc' = "loop"
    /\ UNCHANGED <<opt, cuda_avail, mps_avail, error, device, train_set, test_set,
                   epoch, batches, iteration, epoch_loss,
                   batch_losses, avg_loss, avg_psnr, mse, files, calls>>

\* Lines 113-114 and 75-76: the range yields an epoch and train(epoch) starts.
StartEpoch ==
    /\ pc = "loop"
    /\ epoch_range # <<>>
    /\ epoch' = Head(epoch_range)
    /\ epoch_range' = Tail(epoch_range)
    /\ calls' = Append(calls, [fn |-> "train", args |-> <<Head(epoch_range)>>])
    /\ epoch_loss' = 0
    /\ batch_losses' = <<>>
    /\ batches' = Batches(train_set, opt.batch_size)
    /\ iteration' = 0
    /\ pc' = "train"
    /\ UNCHANGED <<opt, cuda_avail, mps_avail, error, device, train_set, test_set,
                   model, avg_loss, avg_psnr, mse, output, files>>

\* Lines 76-87: one training batch.
TrainBatch ==
    /\ pc = "train"
    /\ batches # <<>>
    /\ \E loss \in Losses :
        /\ epoch_loss' = epoch_loss + loss
        /\ batch_losses' = Append(batch_losses, loss)
    /\ model' = [model EXCEPT !.steps = @ + 1]
    /\ iteration' = iteration + 1
    /\ batches' = Tail(batches)
    /\ output' = Append(output, Line("batch", epoch, iteration + 1,
                                     LoaderLen(train_set, opt.batch_size)))
    /\ UNCHANGED <<opt, cuda_avail, mps_avail, pc, error, device, train_set,
                   test_set, epoch_range, epoch, avg_loss, avg_psnr, mse,
                   files, calls>>

\* Lines 77-83: the library raises inside a training batch (forward pass).
TrainBatchRaises ==
    /\ pc = "train"
    /\ batches # <<>>
    /\ pc' = "failed"
    /\ error' = "RuntimeError"
    /\ UNCHANGED <<opt, cuda_avail, mps_avail, device, train_set, test_set,
                   model, epoch_range, epoch, batches, iteration, epoch_loss,
                   batch_losses, avg_loss, avg_psnr, mse, output, files, calls>>

\* Lines 89-91: the epoch summary, the last statement of train().
TrainSummary ==
    /\ pc = "train"
    /\ batches = <<>>
    /\ LET n == LoaderLen(train_set, opt.batch_size)
       IN  IF n = 0
           THEN /\ pc' = "failed"
                /\ error' = "ZeroDivisionError"
                /\ UNCHANGED <<avg_loss, output>>
           ELSE /\ avg_loss' = [num |-> epoch_loss, den |-> n]
                /\ output' = Append(output, Line("epoch", epoch, 0, 0))
                /\ pc' = "trained"
                /\ error' = error
    /\ UNCHANGED <<opt, cuda_avail, mps_avail, device, train_set, test_set,
                   model, epoch_range, epoch, batches, iteration, epoch_loss,
                   batch_losses, avg_psnr, mse, files, calls>>

\* train() returns, its locals go out of scope; line 115 calls test(),
\* lines 95-97.
StartTest ==
    /\ pc = "trained"
    /\ iteration' = 0
    /\ epoch_loss' = 0
    /\ batch_losses' = <<>>
    /\ avg_loss' = NoLoss
    /\ calls' = Append(calls, [fn |-> "test", args |-> <<>>])
    /\ avg_psnr' = 0
    /\ batches' = Batches(test_set, opt.test_batch_size)
    /\ pc' = "test"
    /\ UNCHANGED <<opt, cuda_avail, mps_avail, error, device, train_set, test_set,
                   model, epoch_range, epoch, mse, output, files>>

\* Variants of the evaluation batch used to probe the properties below:
\* one that also takes an optimizer step, one that swallows the PSNR error.
TestBatchWithStep ==
    /\ pc = "test"
    /\ batches # <<>>
    /\ \E m \in MseValues :
        /\ mse' = m
        /\ IF PsnrError(m) # "none"
           THEN /\ pc' = "failed"
                /\ error' = PsnrError(m)
                /\ UNCHANGED <<avg_psnr, batches, model>>
           ELSE /\ avg_psnr' = avg_psnr + Psnr(m)
                /\ batches' = Tail(batches)
                /\ model' = [model EXCEPT !.steps = @ + 1]
                /\ UNCHANGED <<pc, error>>
    /\ UNCHANGED <<opt, cuda_avail, mps_avail, device, train_set, test_set,
                   epoch_range, epoch, iteration, epoch_loss,
                   batch_losses, avg_loss, output, files, calls>>

TestBatchSkipsError ==
    /\ pc = "test"
    /\ batches # <<>>
    /\ \E m \in MseValues :
        /\ mse' = m
        /\ avg_psnr' = IF PsnrError(m) # "none" THEN avg_psnr ELSE avg_psnr + Psnr(m)
        /\ batches' = Tail(batches)
        /\ UNCHANGED <<pc, error>>
    /\ UNCHANGED <<opt, cuda_avail, mps_avail, device, train_set, test_set,
                   model, epoch_range, epoch, iteration, epoch_loss,
                   batch_losses, avg_loss, output, files, calls>>

\* Lines 97-103: one evaluation batch, under torch.no_grad().
TestBatch ==
    /\ pc = "test"
    /\ batches # <<>>
    /\ \E m \in MseValues :
        /\ mse' = m
        /\ IF PsnrError(m) # "none"
           THEN /\ pc' = "failed"
                /\ error' = PsnrError(m)
                /\ UNCHANGED <<avg_psnr, batches>>
           ELSE /\ avg_psnr' = avg_psnr + Psnr(m)
                /\ batches' = Tail(batches)
                /\ UNCHANGED <<pc, error>>
    /\ UNCHANGED <<opt, cuda_avail, mps_avail, device, train_set, test_set,
                   model, epoch_range, epoch, iteration, epoch_loss,
                   batch_losses, avg_loss, output, files, calls>>

\* Lines 98-101: the library raises inside an evaluation batch.
TestBatchRaises ==
    /\ pc = "test"
    /\ batches # <<>>
    /\ pc' = "failed"
    /\ error' = "RuntimeError"
    /\ UNCHANGED <<opt, cuda_avail, mps_avail, device, train_set, test_set,
                   model, epoch_range, epoch, batches, iteration, epoch_loss,
                   batch_losses, avg_loss, avg_psnr, mse, output, files, calls>>

\* Line 104: avg_psnr / len(testing_data_loader); test() returns, its locals
\* go out of scope, and control is back at line 113.
TestSummary ==
    /\ pc = "test"
    /\ batches = <<>>
    /\ IF LoaderLen(test_set, opt.test_batch_size) = 0
       THEN /\ pc' = "failed"
            /\ error' = "ZeroDivisionError"
            /\ UNCHANGED <<output, avg_psnr, mse>>
       ELSE /\ output' = Append(output, Line("psnr", 0, 0, 0))
            /\ avg_psnr' = 0
            /\ mse' = NoMse
            /\ pc' = "loop"
            /\ error' = error
    /\ UNCHANGED <<opt, cuda_avail, mps_avail, device, train_set, test_set,
                   model, epoch_range, epoch, batches, iteration, epoch_loss,
                   batch_losses, avg_loss, files, calls>>

\* Lines 107-110 and 117: the range is exhausted, checkpoint(opt.nb_epochs).
Checkpoint ==
    /\ pc = "loop"
    /\ epoch_range = <<>>
    /\ calls' = Append(calls, [fn |-> "checkpoint", args |-> <<opt.nb_epochs>>])
    /\ files' = files \cup {ModelOutPath(opt.nb_epochs)}
    /\ output' = Append(output, Line("checkpoint", opt.nb_epochs, 0, 0))
    /\ pc' = "done"
    /\ UNCHANGED <<opt, cuda_avail, mps_avail, error, device, train_set, test_set,
                   model, epoch_range, epoch, batches, iteration, epoch_loss,
                   batch_losses, avg_loss, avg_psnr, mse>>

Next ==
    \/ Validate
    \/ SelectDevice
    \/ LoadDatasets
    \/ BuildModel
    \/ StartEpoch
    \/ TrainBatch
    \/ TrainBatchRaises
    \/ TrainSummary
    \/ StartTest
    \/ TestBatch
    \/ TestBatchRaises
    \/ TestSummary
    \/ Checkpoint

Spec == Init /\ [][Next]_vars

----------------------------------------------------------------------------
\* Properties

RECURSIVE Sum(_)
Sum(s) == IF s = <<>> THEN 0 ELSE Head(s) + Sum(Tail(s))

Count(kind) == Len(SelectSeq(output, LAMBDA l : l.kind = kind))
CallsOf(fn) == SelectSeq(calls, LAMBDA c : c.fn = fn)
LoopCalls == SelectSeq(calls, LAMBDA c : c.fn # "checkpoint")
Ceil(n, b) == (n + b - 1) \div b
ValidationFails == (opt.cuda /\ ~cuda_avail) \/ (~opt.mps /\ mps_avail)
PastValidation == pc \notin {"validate", "failed"} \/ error \in {"RuntimeError", "ZeroDivisionError", "ValueError"}

\* C1: once a validated run has resolved its device, the device is one of
\* cpu, cuda, mps and follows the precedence: cuda requested gives cuda;
\* otherwise mps requested and available gives mps; otherwise cpu.
C1_DevicePrecedence ==
    /\ device \in {"unset", "cpu", "cuda", "mps"}
    /\ device = "unset" <=> (pc \in {"validate", "select"} \/ error \in {"NoGPU", "MpsNotEnabled"})
    /\ device # "unset" =>
        /\ opt.cuda => device = "cuda"
        /\ (~opt.cuda /\ opt.mps /\ mps_avail) => device = "mps"
        /\ (~opt.cuda /\ ~(opt.mps /\ mps_avail)) => device = "cpu"

C1_Witness == pc = "done" /\ opt.cuda /\ opt.mps /\ mps_avail /\ device = "cuda"

\* C2: when validation fails (cuda requested without a GPU, or a platform
\* accelerator available without mps requested) the run never gets past
\* validation: no dataset is loaded, no model built, no batch trained or
\* evaluated, no checkpoint written.
C2_ValidationFailureAborts ==
    ValidationFails =>
        /\ pc \in {"validate", "failed"}
        /\ pc = "failed" => error \in {"NoGPU", "MpsNotEnabled"}
        /\ output = <<Line("opt", 0, 0, 0)>>
        /\ device = "unset"
        /\ train_set = 0 /\ test_set = 0
        /\ ~model.built /\ model.steps = 0
        /\ calls = <<>>
        /\ files = {}

C2_Witness == pc = "failed" /\ error = "MpsNotEnabled" /\ ~opt.cuda /\ mps_avail /\ ~opt.mps

\* C3: for every nb_epochs >= 0 a run without error calls checkpoint exactly
\* once, after the last epoch's training and evaluation have finished, and
\* writes model_epoch_<nb_epochs>.pth; before that no checkpoint exists.
C3_CheckpointOnceAtEnd ==
    /\ pc # "done" =>
        /\ files = {}
        /\ CallsOf("checkpoint") = <<>>
        /\ Count("checkpoint") = 0
    /\ pc = "done" =>
        /\ files = {<<"model_epoch_", opt.nb_epochs, ".pth">>}
        /\ CallsOf("checkpoint") = <<[fn |-> "checkpoint", args |-> <<opt.nb_epochs>>]>>
        /\ Len(calls) = 2 * opt.nb_epochs + 1
        /\ calls[Len(calls)].fn = "checkpoint"
        /\ Count("checkpoint") = 1
        /\ output[Len(output)] = Line("checkpoint", opt.nb_epochs, 0, 0)
        /\ Count("epoch") = opt.nb_epochs
        /\ Count("psnr") = opt.nb_epochs

C3_Witness == pc = "done" /\ opt.nb_epochs = 2 /\ Cardinality(files) = 1

\* C4: the loop calls train(1), test(), train(2), test(), ... in this order,
\* each epoch number 1..nb_epochs once, and a training epoch starts only
\* after the evaluation of the previous epoch has reported.
ExpectedLoopCalls(n) ==
    [i \in 1..(2 * n) |-> IF i % 2 = 1
                          THEN [fn |-> "train", args |-> <<(i + 1) \div 2>>]
                          ELSE [fn |-> "test", args |-> <<>>]]

C4_EpochsSequential ==
    /\ Len(LoopCalls) <= 2 * opt.nb_epochs
    /\ LoopCalls = SubSeq(ExpectedLoopCalls(opt.nb_epochs), 1, Len(LoopCalls))
    /\ pc = "done" => Len(LoopCalls) = 2 * opt.nb_epochs
    /\ pc = "train" =>
        /\ Len(LoopCalls) = 2 * epoch - 1
        /\ Count("epoch") = epoch - 1
        /\ Count("psnr") = epoch - 1
    /\ pc = "trained" =>
        /\ Len(LoopCalls) = 2 * epoch - 1
        /\ Count("epoch") = epoch
        /\ Count("psnr") = epoch - 1
    /\ pc = "test" =>
        /\ Len(LoopCalls) = 2 * epoch
        /\ Count("epoch") = epoch
        /\ Count("psnr") = epoch - 1

C4_Witness == pc = "train" /\ epoch = 2 /\ opt.nb_epochs = 2 /\ Len(calls) = 3

\* C5: a run that passed validation, with no failure of the library calls,
\* does not abort: the only exceptions that end a run are the two validation
\* errors and errors raised inside the library.
C5_RunsToCompletion ==
    pc = "failed" => error \in {"NoGPU", "MpsNotEnabled", "RuntimeError"}

\* C6: a completed run over T training examples with batch size b and E
\* epochs printed E * ceil(T / b) batch lines, numbered 1..ceil(T / b) in
\* each epoch, E epoch summaries, E evaluation summaries and one checkpoint
\* line.
C6_OutputCounts ==
    pc = "done" =>
        LET n == Ceil(train_set, opt.batch_size)
        IN  /\ Count("batch") = opt.nb_epochs * n
            /\ Count("epoch") = opt.nb_epochs
            /\ Count("psnr") = opt.nb_epochs
            /\ Count("checkpoint") = 1
            /\ \A e \in 1..opt.nb_epochs :
                  SelectSeq(output, LAMBDA l : l.kind = "batch" /\ l.epoch = e)
                      = [i \in 1..n |-> Line("batch", e, i, n)]

C6_Witness ==
    /\ pc = "done"
    /\ train_set = 4 /\ opt.batch_size = 2 /\ opt.nb_epochs = 1
    /\ Count("batch") = 2 /\ Count("epoch") = 1 /\ Count("psnr") = 1
    /\ files = {<<"model_epoch_", 1, ".pth">>}

\* C7: the average printed at the end of a training epoch is the sum of the
\* losses of that epoch's batches divided by the number of batches iterated
\* in that epoch; the accumulator holds exactly this epoch's losses.
C7_AverageIsMean ==
    /\ pc = "train" =>
        /\ epoch_loss = Sum(batch_losses)
        /\ Len(batch_losses) = iteration
    /\ pc = "trained" =>
        /\ Len(batch_losses) > 0
        /\ Len(batch_losses) = Len(Batches(train_set, opt.batch_size))
        /\ avg_loss.den = Len(batch_losses)
        /\ avg_loss.num = Sum(batch_losses)

C7_Witness ==
    /\ pc = "trained" /\ epoch = 2
    /\ train_set = 3 /\ opt.batch_size = 2
    /\ batch_losses = <<1, 0>>
    /\ avg_loss = [num |-> 1, den |-> 2]

\* C8 as stated: no run with both cuda and mps requested gets past validation.
C8_AtMostOneFlag == PastValidation => ~(opt.cuda /\ opt.mps)

\* C8 amended: a run gets past validation exactly when cuda requested implies
\* a GPU is available and a platform accelerator available implies mps
\* requested (both flags together are accepted); the device then selected is
\* available on the host.
C8_ValidatedDeviceAvailable ==
    /\ PastValidation <=> (pc # "validate" /\ (opt.cuda => cuda_avail) /\ (mps_avail => opt.mps))
    /\ PastValidation =>
        /\ device = "cuda" => cuda_avail
        /\ device = "mps" => mps_avail

C8_Witness == pc = "done" /\ opt.cuda /\ opt.mps /\ cuda_avail /\ device = "cuda"

\* C9: the parameters change only in a training batch, by one optimizer step
\* per batch; evaluation, reporting and checkpointing leave them unchanged,
\* so the number of updates equals the number of training batches processed.
C9_OnlyTrainingUpdates ==
    /\ [][model'.steps # model.steps =>
            /\ pc = "train" /\ pc' = "train"
            /\ model'.steps = model.steps + 1
            /\ iteration' = iteration + 1]_vars
    /\ [](model.steps = Count("batch"))
    /\ [](pc = "done" => model.steps = opt.nb_epochs * Ceil(train_set, opt.batch_size))

C9_Witness == pc = "done" /\ model.steps = 4 /\ Count("psnr") = 2 /\ test_set = 2

\* C10: an error ends the run: a zero evaluation MSE raises, after an error
\* nothing more happens, and a failed run has written no checkpoint.
C10_FailureIsTerminal ==
    /\ [](mse = Zero => pc = "failed" /\ error = "ZeroDivisionError")
    /\ [](error # "none" <=> pc = "failed")
    /\ [](pc = "failed" => files = {} /\ Count("checkpoint") = 0)
    /\ [][pc = "failed" => UNCHANGED vars]_vars

C10_Witness ==
    /\ pc = "failed" /\ error = "ZeroDivisionError" /\ mse = Zero
    /\ epoch = 1 /\ opt.nb_epochs = 2 /\ Len(batches) = 2

====
